---------------------------- MODULE Spec2Model ----------------------------
(***************************************************************************)
(* Weblate language reconciliation scripts:                                *)
(*   sync.py                        conservative sync (keep/update, create,*)
(*                                  delete) against zanata.json            *)
(*   create_languages_weblate.py    batch create/update ("v1")             *)
(*   create_languages_weblate_v2.py batch create/update ("v2")             *)
(*   delete_languages.py            WeblateLanguageDeleter                 *)
(*                                                                         *)
(* A Python str is a sequence of one-character strings, None is the empty  *)
(* sequence <<>> and a present optional value x is <<x>>.                  *)
(***************************************************************************)
EXTENDS Integers, Sequences, FiniteSets, TLC

(***************************************************************************)
(* Characters and strings                                                  *)
(***************************************************************************)

\* The characters the inputs are built from, in code point order.
Ascii ==
    << " ", "!", "(", ")", "-",
       "0", "1", "2", "3", "4", "5", "6", "7", "8", "9",
       ";", "=", ">",
       "A", "B", "C", "D", "E", "F", "G", "H", "I", "J", "K", "L", "M",
       "N", "O", "P", "Q", "R", "S", "T", "U", "V", "W", "X", "Y", "Z",
       "_",
       "a", "b", "c", "d", "e", "f", "g", "h", "i", "j", "k", "l", "m",
       "n", "o", "p", "q", "r", "s", "t", "u", "v", "w", "x", "y", "z" >>

Upper == << "A", "B", "C", "D", "E", "F", "G", "H", "I", "J", "K", "L", "M",
            "N", "O", "P", "Q", "R", "S", "T", "U", "V", "W", "X", "Y", "Z" >>

Lowercase == << "a", "b", "c", "d", "e", "f", "g", "h", "i", "j", "k", "l", "m",
                "n", "o", "p", "q", "r", "s", "t", "u", "v", "w", "x", "y", "z" >>

Digits == << "0", "1", "2", "3", "4", "5", "6", "7", "8", "9" >>

Chars == { Ascii[k] : k \in 1..Len(Ascii) }

OrdOf == [c \in Chars |-> CHOOSE k \in 1..Len(Ascii) : Ascii[k] = c]

LowerOf ==
    [c \in Chars |->
        IF \E k \in 1..Len(Upper) : Upper[k] = c
        THEN Lowercase[CHOOSE k \in 1..Len(Upper) : Upper[k] = c]
        ELSE c]

DigitSet == { Digits[k] : k \in 1..Len(Digits) }

\* ord(c), up to an order-preserving renumbering
Ord(c) == OrdOf[c]

\* str.lower() of one character
Lower(c) == LowerOf[c]

IsSpace(c) == c = " "

IsDigit(c) == c \in DigitSet

DigitVal(c) == (CHOOSE k \in 1..Len(Digits) : Digits[k] = c) - 1

\* s < t for Python strings (lexicographic on code points)
RECURSIVE StrLess(_, _)
StrLess(s, t) ==
    IF t = <<>> THEN FALSE
    ELSE IF s = <<>> THEN TRUE
    ELSE IF Head(s) = Head(t) THEN StrLess(Tail(s), Tail(t))
    ELSE Ord(Head(s)) < Ord(Head(t))

\* sorted(S) for a set of strings
RECURSIVE Sorted(_)
Sorted(S) ==
    IF S = {} THEN <<>>
    ELSE LET m == CHOOSE x \in S : \A y \in S \ {x} : StrLess(x, y)
         IN  <<m>> \o Sorted(S \ {m})

RECURSIVE LStrip(_)
LStrip(s) == IF s # <<>> /\ IsSpace(Head(s)) THEN LStrip(Tail(s)) ELSE s

\* s.rstrip(chars)
RECURSIVE RStripChars(_, _)
RStripChars(s, chars) ==
    IF s # <<>> /\ s[Len(s)] \in chars
    THEN RStripChars(SubSeq(s, 1, Len(s) - 1), chars)
    ELSE s

\* s.strip()
Strip(s) == RStripChars(LStrip(s), {" "})

\* s.replace("-", "_")
ReplaceHyphen(s) == [i \in 1..Len(s) |-> IF s[i] = "-" THEN "_" ELSE s[i]]

\* s.count(c)
Count(s, c) == Cardinality({i \in 1..Len(s) : s[i] = c})

\* code.split("_", 1)[0]
SplitBase(code) ==
    IF \E i \in 1..Len(code) : code[i] = "_"
    THEN SubSeq(code, 1, (CHOOSE i \in 1..Len(code) :
                              /\ code[i] = "_"
                              /\ \A j \in 1..(i - 1) : code[j] # "_") - 1)
    ELSE code

\* int(digits)
RECURSIVE ToInt(_)
ToInt(ds) ==
    IF ds = <<>> THEN 0
    ELSE 10 * ToInt(SubSeq(ds, 1, Len(ds) - 1)) + DigitVal(ds[Len(ds)])

(***************************************************************************)
(* canon: code normalization                                               *)
(***************************************************************************)

canon_NoLower(code) ==
    IF code = <<>> THEN <<>> ELSE ReplaceHyphen(Strip(code))

canon(code) ==
    IF code = <<>> THEN <<>>
    ELSE LET t == ReplaceHyphen(Strip(code))
         IN  IF t # <<>> THEN <<Lower(t[1])>> \o Tail(t) ELSE t

(***************************************************************************)
(* parse_plural_forms                                                      *)
(***************************************************************************)

KwNplurals == << "n", "p", "l", "u", "r", "a", "l", "s" >>
KwPlural == << "p", "l", "u", "r", "a", "l" >>

\* the keyword kw matches s at position i, ignoring case
KwAt(s, i, kw) ==
    /\ i + Len(kw) - 1 <= Len(s)
    /\ \A j \in 1..Len(kw) : Lower(s[i + j - 1]) = kw[j]

\* \s* from position i: the first position >= i that holds no whitespace
RECURSIVE SkipSpace(_, _)
SkipSpace(s, i) ==
    IF i <= Len(s) /\ IsSpace(s[i]) THEN SkipSpace(s, i + 1) ELSE i

\* the end of the longest run of characters satisfying the class from i
RECURSIVE DigitRunEnd(_, _)
DigitRunEnd(s, i) ==
    IF i + 1 <= Len(s) /\ IsDigit(s[i + 1]) THEN DigitRunEnd(s, i + 1) ELSE i

RECURSIVE NonSemiRunEnd(_, _)
NonSemiRunEnd(s, i) ==
    IF i + 1 <= Len(s) /\ s[i + 1] # ";" THEN NonSemiRunEnd(s, i + 1) ELSE i

\* nplurals\s*=\s*(\d+) tried at position i, '=' expected at p and the
\* digits at q: the captured group, or <<>>
NumGroup(s, q) ==
    IF q <= Len(s) /\ IsDigit(s[q]) THEN << SubSeq(s, q, DigitRunEnd(s, q)) >> ELSE <<>>

NumAfterKw(s, p) ==
    IF p <= Len(s) /\ s[p] = "=" THEN NumGroup(s, SkipSpace(s, p + 1)) ELSE <<>>

NumAt(s, i) ==
    IF KwAt(s, i, KwNplurals)
    THEN NumAfterKw(s, SkipSpace(s, i + Len(KwNplurals)))
    ELSE <<>>

\* plural\s*=\s*([^;]+) tried at position i, '=' found at p, the first
\* character after the whitespace at q: the captured group, or <<>>.
\* When only whitespace follows '=', \s* gives its last character to the group.
FormulaGroup(s, p, q) ==
    IF q <= Len(s) /\ s[q] # ";" THEN << SubSeq(s, q, NonSemiRunEnd(s, q)) >>
    ELSE IF q > p + 1 THEN << SubSeq(s, q - 1, q - 1) >>
    ELSE <<>>

FormulaAfterKw(s, p) ==
    IF p <= Len(s) /\ s[p] = "=" THEN FormulaGroup(s, p, SkipSpace(s, p + 1)) ELSE <<>>

FormulaAt(s, i) ==
    IF KwAt(s, i, KwPlural)
    THEN FormulaAfterKw(s, SkipSpace(s, i + Len(KwPlural)))
    ELSE <<>>

\* re.search: the match at the leftmost position that has one
RECURSIVE FirstMatch(_)
FirstMatch(tries) ==
    IF tries = <<>> THEN <<>>
    ELSE IF Head(tries) # <<>> THEN Head(tries)
    ELSE FirstMatch(Tail(tries))

SearchNum(s) == FirstMatch([i \in 1..Len(s) |-> NumAt(s, i)])

SearchFormula(s) == FirstMatch([i \in 1..Len(s) |-> FormulaAt(s, i)])

\* lines 35-36: formula[1:-1].strip() when it starts with "(" and ends with ")"
StripParens(formula) ==
    IF formula # <<>> /\ Head(formula) = "(" /\ formula[Len(formula)] = ")"
    THEN Strip(SubSeq(formula, 2, Len(formula) - 1))
    ELSE formula

\* lines 34-37: the formula from the captured group
CleanFormula(group) == Strip(RStripChars(StripParens(Strip(group)), { ";" }))

\* lines 38-40
CheckedRule(number, formula) ==
    IF formula = <<>> \/ Count(formula, "(") # Count(formula, ")")
    THEN <<>>
    ELSE << [number |-> number, formula |-> formula] >>

\* lines 31-40
ParseMatches(m_num, m_for) ==
    IF m_num = <<>> \/ m_for = <<>> THEN <<>>
    ELSE CheckedRule(ToInt(m_num[1]), CleanFormula(m_for[1]))

\* line 28
Stripped(pf) == RStripChars(Strip(pf), { ";" })

\* line 34: m_for.group(1).strip(), the extracted expression
ExtractedExpr(pf) ==
    LET m_for == SearchFormula(Stripped(pf))
    IN  IF m_for = <<>> THEN <<>> ELSE Strip(m_for[1])

\* Optional[Tuple[int, str]]
parse_plural_forms(pf) ==
    IF pf = <<>> THEN <<>>
    ELSE ParseMatches(SearchNum(Stripped(pf)), SearchFormula(Stripped(pf)))

(***************************************************************************)
(* Input pools                                                             *)
(***************************************************************************)

MaxRemote == 2    \* records in the remote snapshot
MaxAliases == 2   \* aliases of one remote record
MaxZanata == 2    \* entries of the Zanata locales array
MaxListed == 3    \* codes and aliases of one remote snapshot, together
PageSize == 1     \* records on one page of a listing

S_he == << "h", "e" >>
S_iw == << "i", "w" >>
S_ko == << "k", "o" >>
S_Ko == << "K", "o" >>
S_koKR == << "k", "o", "_", "K", "R" >>
S_ko_KR_raw == << "k", "o", "-", "K", "R" >>

\* "nplurals=2; plural=(n != 1);"
PF_A == KwNplurals \o << "=", "2", ";", " " >> \o KwPlural
            \o << "=", "(", "n", " ", "!", "=", " ", "1", ")", ";" >>
\* "nplurals=1; plural=0;"
PF_B == KwNplurals \o << "=", "1", ";", " " >> \o KwPlural \o << "=", "0", ";" >>
\* "nplurals=2; plural=(n!=1;"   (mismatched parentheses)
PF_BAD == KwNplurals \o << "=", "2", ";", " " >> \o KwPlural
            \o << "=", "(", "n", "!", "=", "1", ";" >>

\* entries of the Zanata locales JSON array
ZanataPool ==
    { [localeId |-> S_he, id |-> <<>>, displayName |-> << "H" >>,
       nativeName |-> <<>>, pluralForms |-> <<>>],
      [localeId |-> S_ko_KR_raw, id |-> <<>>, displayName |-> <<>>,
       nativeName |-> << " ", "K" >>, pluralForms |-> PF_B],
      [localeId |-> <<>>, id |-> S_ko, displayName |-> <<>>,
       nativeName |-> <<>>, pluralForms |-> <<>>] }

\* sequences without repetition over S, of length at most n
RECURSIVE SeqsUpTo(_, _)
SeqsUpTo(S, n) ==
    IF n = 0 THEN { <<>> }
    ELSE LET shorter == SeqsUpTo(S, n - 1)
         IN  shorter \cup
             { Append(p[1], p[2]) :
                 p \in { r \in shorter \X S :
                           /\ Len(r[1]) = n - 1
                           /\ \A a \in 1..Len(r[1]) : r[1][a] # r[2] } }

ZanataArrays == SeqsUpTo(ZanataPool, MaxZanata)

\* the loaded plural map: canonical code -> stripped plural-forms string
PluralKeys == { S_he, S_ko, S_koKR }

PluralStrings == { PF_A, PF_B, PF_BAD, <<>> }

PluralChoices(k) ==
    IF k = S_koKR THEN { PF_A, PF_BAD, <<>> }
    ELSE IF k = S_ko THEN { PF_B }
    ELSE { PF_A }

\* every map holds an entry for "he"; "ko" and "ko_KR" may be absent
PluralMaps ==
    UNION { { f \in [D -> PluralStrings] :
                \A k \in D : f[k] \in PluralChoices(k) } :
            D \in { E \in SUBSET PluralKeys : S_he \in E } }

\* the remote store: records with their code and alias list; the other
\* fields of a record are read once and drawn when they are read
RemoteCodes == { S_Ko, S_he, S_iw }
AliasPool == { S_he, S_ko_KR_raw }
AliasLists == SeqsUpTo(AliasPool, MaxAliases)

RemoteRecords == { [code |-> c, aliases |-> a] : c \in RemoteCodes, a \in AliasLists }

RECURSIVE Listed(_)
Listed(q) ==
    IF q = <<>> THEN 0 ELSE 1 + Len(Head(q).aliases) + Listed(Tail(q))

\* snapshots list the records in code order, one record per code
RemoteSnapshots ==
    { q \in SeqsUpTo(RemoteRecords, MaxRemote) :
        /\ \A a, b \in 1..Len(q) : a < b => StrLess(q[a].code, q[b].code)
        /\ Listed(q) <= MaxListed }

\* name and plural of a remote record, as the store returns them
RemoteBodies ==
    { [name |-> << "H" >>,
       plural |-> << [number |-> 2, formula |-> << "n", " ", "!", "=", " ", "1" >>] >>],
      [name |-> << "K", " " >>,
       plural |-> << [number |-> 1, formula |-> << "0", " " >>] >>] }

\* --exclude: the entries are compared as given with canon(w_code)
ExcludeSets == { {}, { S_ko }, { S_Ko } }

\* delete_languages.py compares the codes as listed
DeleterExcludes == { {}, { S_iw }, { S_ko, S_Ko } }

\* the strings the scripts normalize: the codes of the pools and their
\* canonical forms
CodeStrings ==
    LET raw == RemoteCodes \cup AliasPool
                 \cup { it.localeId : it \in ZanataPool }
                 \cup { it.id : it \in ZanataPool }
    IN  raw \cup { canon(c) : c \in raw }

\* canon on the strings of the pools, evaluated once
CanonPool == [c \in CodeStrings |-> canon(c)]

Canon(code) == CanonPool[code]

\* parse_plural_forms on the strings of the pools, evaluated once
ParsedPool == [pf \in PluralStrings |-> parse_plural_forms(pf)]

Parsed(pf) == ParsedPool[pf]

(***************************************************************************)
(* Input loaders                                                           *)
(***************************************************************************)

\* a or b, for strings
Or(a, b) == IF a # <<>> THEN a ELSE b

\* d.get(k): None or the value
Get(d, k) == IF k \in DOMAIN d THEN << d[k] >> ELSE <<>>

\* truthiness of an optional string: neither None nor ""
Truthy(opt) == opt # <<>> /\ opt[1] # <<>>

ZCode(it) == canon(Or(it.localeId, it.id))

ZName(it) == Or(Or(Strip(it.displayName), Strip(it.nativeName)), ZCode(it))

RtlLangs ==
    { << "a", "r" >>, << "f", "a" >>, << "h", "e" >>, << "u", "r" >>,
      << "u", "g" >>, << "d", "v" >>, << "p", "s" >>,
      << "k", "u", "_", "A", "r", "a", "b" >> }

\* the item that sets out[code]: the last one of the array with that code
LastWith(arr, code) ==
    arr[CHOOSE i \in 1..Len(arr) :
            /\ ZCode(arr[i]) = code
            /\ \A j \in (i + 1)..Len(arr) : ZCode(arr[j]) # code]

LoadedCodes(arr) == { ZCode(arr[i]) : i \in 1..Len(arr) } \ { <<>> }

\* sync.py: {code: {"name": name}}
load_zanata_locales_sync(arr) ==
    [code \in LoadedCodes(arr) |-> [name |-> ZName(LastWith(arr, code))]]

\* create_languages_weblate(_v2).py: {code: {"name", "rtl", "pluralForms"}}
load_zanata_locales(arr) ==
    [code \in LoadedCodes(arr) |->
        LET it == LastWith(arr, code)
        IN  [name |-> ZName(it),
             rtl |-> SplitBase(code) \in RtlLangs,
             pluralForms |-> Strip(it.pluralForms)]]

\* the keys of the loaded dict in insertion order
RECURSIVE KeyOrder(_)
KeyOrder(arr) ==
    IF arr = <<>> THEN <<>>
    ELSE LET front == KeyOrder(SubSeq(arr, 1, Len(arr) - 1))
             code  == ZCode(arr[Len(arr)])
         IN  IF code = <<>> \/ \E i \in 1..Len(front) : front[i] = code
             THEN front
             ELSE Append(front, code)

(***************************************************************************)
(* Weblate API client                                                      *)
(***************************************************************************)

\* one HTTP request, as the server sees it; absent payload fields are <<>>
Req(op, code, name, plural, direction) ==
    [op |-> op, code |-> code, name |-> name, plural |-> plural,
     direction |-> direction]

Rule(number, formula) == [number |-> number, formula |-> formula]

\* what a request can come back with: a status code, or an exception of
\* the transport (timeout, connection error) raised by the session call
Answer(status) == [raised |-> FALSE, status |-> status]
Raised == [raised |-> TRUE, status |-> 0]

GetAnswers == { Answer(200), Answer(404), Answer(500), Raised }
PostAnswers == { Answer(201), Answer(400), Raised }
PatchAnswers == { Answer(200), Answer(400), Raised }
DeleteAnswers == { Answer(204), Answer(404), Raised }

\* r.raise_for_status() raises HTTPError
IsHTTPError(status) == 400 <= status /\ status < 600

\* sync.py create_language: the payload has no direction
create_language_sync(code, name, number, formula) ==
    Req("POST", code, << name >>, << Rule(number, formula) >>, <<>>)

\* v1/v2 create_language
create_language(code, name, number, formula, direction) ==
    Req("POST", code, << Or(name, code) >>, << Rule(number, formula) >>,
        IF direction \in { << "ltr" >>, << "rtl" >> } THEN direction ELSE <<>>)

patch_language_DropsName(code, name, number, formula) ==
    Req("PATCH", code, <<>>,
        IF number # <<>> /\ Truthy(formula)
        THEN << Rule(number[1], formula[1]) >> ELSE <<>>,
        <<>>)

\* patch_language / update_language: the payload built from the optional
\* arguments; the request is sent only when the payload is not empty
patch_language(code, name, number, formula) ==
    Req("PATCH", code,
        IF Truthy(name) THEN name ELSE <<>>,
        IF number # <<>> /\ Truthy(formula)
        THEN << Rule(number[1], formula[1]) >> ELSE <<>>,
        <<>>)

PayloadEmpty(req) == req.name = <<>> /\ req.plural = <<>>

(***************************************************************************)
(* Plural resolution and alias matching                                    *)
(***************************************************************************)

\* lines 155-159: the parsed rule with the key it was taken from
Tagged(parsed, from_key) ==
    IF parsed = <<>> THEN <<>>
    ELSE << [number |-> parsed[1].number, formula |-> parsed[1].formula,
             from_key |-> from_key] >>

PickFrom_NoFallback(exact, from_base, code) ==
    IF Truthy(exact) THEN Tagged(Parsed(exact[1]), code) ELSE <<>>

\* lines 146-159, with exact = plural_map.get(code) and
\* from_base = plural_map.get(base)
PickFrom(exact, from_base, code) ==
    IF Truthy(exact) THEN Tagged(Parsed(exact[1]), code)
    ELSE IF Truthy(from_base) THEN Tagged(Parsed(from_base[1]), SplitBase(code))
    ELSE <<>>

\* Optional[(number, formula, from_key)]
pick_plural(plural_map_, code) ==
    PickFrom(Get(plural_map_, code), Get(plural_map_, SplitBase(code)), code)

\* pick_plural on the maps and codes of the pools, evaluated once
PickPool ==
    [pm \in PluralMaps |->
        [c \in { Canon(r) : r \in CodeStrings } |-> pick_plural(pm, c)]]

PickPlural(plural_map_, code) == PickPool[plural_map_][code]

\* v1, v2 main, lines 181-189, with exact = plural_map.get(code) and
\* pf_base = plural_map.get(base): parse_plural_forms(pf_str or "")
ResolveFrom(exact, pf_base) ==
    IF Truthy(exact) THEN Parsed(exact[1])
    ELSE IF Truthy(pf_base) THEN Parsed(pf_base[1])
    ELSE Parsed(<<>>)

resolve_plural(plural_map_, code) ==
    ResolveFrom(Get(plural_map_, code), Get(plural_map_, SplitBase(code)))

\* resolve_plural on the maps and codes of the pools, evaluated once
ResolvePool ==
    [pm \in PluralMaps |->
        [c \in { Canon(r) : r \in CodeStrings } |-> resolve_plural(pm, c)]]

ResolvePlural(plural_map_, code) == ResolvePool[plural_map_][code]

any_alias_match_Last(aliases, target_codes) ==
    IF \E i \in 1..Len(aliases) : Canon(aliases[i]) \in target_codes
    THEN << Canon(aliases[CHOOSE i \in 1..Len(aliases) :
                    /\ Canon(aliases[i]) \in target_codes
                    /\ \A j \in (i + 1)..Len(aliases) :
                           Canon(aliases[j]) \notin target_codes]) >>
    ELSE <<>>

\* the first alias, in list order, whose canonical form is a target code
any_alias_match(aliases, target_codes) ==
    IF \E i \in 1..Len(aliases) : Canon(aliases[i]) \in target_codes
    THEN << Canon(aliases[CHOOSE i \in 1..Len(aliases) :
                    /\ Canon(aliases[i]) \in target_codes
                    /\ \A j \in 1..(i - 1) :
                           Canon(aliases[j]) \notin target_codes]) >>
    ELSE <<>>

(***************************************************************************)
(* State                                                                   *)
(***************************************************************************)

VARIABLES
    tool,           \* which script runs
    pc,             \* its position
    apply,          \* args.apply (delete_all_languages: not dry_run)
    token,          \* an auth token is configured
    listing,        \* the outcome of each listing of the store so far
    fn,             \* a function applied on its own: which one
    arg,            \* its input string
    out,            \* its results so far
    exclude,        \* args.exclude / exclude_languages
    zanata,         \* the loaded Zanata locales (zanata, zanata_map)
    zorder,         \* zanata_map's keys in iteration order (v1, v2)
    plural_map,     \* the loaded plural map
    remote,         \* the records of the remote store
    current,        \* sync.py: the listing, cli.list_languages()
    idx,              \* index of the running loop
    keep_codes,     \* sync.py
    create_list,    \* sync.py
    delete_list,    \* sync.py
    report,         \* the per-code lines printed so far
    calls,          \* the HTTP requests issued so far
    counts,         \* created, updated, skipped, failed, deleted
    failures,       \* v1, v2: the failure list
    languages_to_delete,    \* delete_all_languages
    languages_to_skip       \* delete_all_languages

vars == << tool, pc, apply, token, listing, fn, arg, out, exclude, zanata, zorder, plural_map, remote,
           current, idx, keep_codes, create_list, delete_list, report, calls,
           counts, failures, languages_to_delete, languages_to_skip >>

sync_locals == << keep_codes, create_list, delete_list >>
tally == << counts, failures >>
deleter_locals == << languages_to_delete, languages_to_skip >>

pure == << fn, arg, out >>

inputs == << tool, apply, token, exclude, zanata, zorder, plural_map, remote >>

\* the catalogues the loaders produce from the arrays of the pool
LoadedSync == { load_zanata_locales_sync(arr) : arr \in ZanataArrays }

Loaded ==
    { [map |-> load_zanata_locales(arr), keys |-> KeyOrder(arr)] :
        arr \in ZanataArrays }

InitSync ==
    /\ tool = "sync"
    /\ token \in BOOLEAN
    /\ exclude \in ExcludeSets
    /\ zanata \in LoadedSync
    /\ zorder = <<>>
    /\ plural_map \in PluralMaps
    /\ remote \in RemoteSnapshots

\* v1, v2: the store is queried code by code
InitCreateUpdate ==
    /\ tool \in { "v1", "v2" }
    /\ token \in BOOLEAN
    /\ exclude = {}
    /\ \E loaded \in Loaded :
          /\ zanata = loaded.map
          /\ zorder = loaded.keys
    /\ plural_map \in PluralMaps
    /\ remote = <<>>

\* delete_languages.py: main, or delete_all_languages called on the class
InitDeleter ==
    /\ tool \in { "deleter_main", "delete_all" }
    /\ token \in IF tool = "deleter_main" THEN BOOLEAN ELSE { TRUE }
    /\ exclude \in DeleterExcludes
    /\ zanata = <<>>
    /\ zorder = <<>>
    /\ plural_map = <<>>
    /\ remote \in RemoteSnapshots

\* the state of a run before its first step
Idle ==
    /\ counts = [created |-> 0, updated |-> 0, skipped |-> 0, failed |-> 0,
                 deleted |-> 0]
    /\ failures = <<>>
    /\ languages_to_delete = <<>>
    /\ languages_to_skip = <<>>
    /\ pc = "start"
    /\ listing = <<>>
    /\ current = <<>>
    /\ idx = 1
    /\ keep_codes = {}
    /\ create_list = {}
    /\ delete_list = {}
    /\ report = <<>>
    /\ calls = <<>>

Init ==
    /\ InitSync \/ InitCreateUpdate \/ InitDeleter
    /\ apply \in BOOLEAN
    /\ fn = "none" /\ arg = <<>> /\ out = <<>>
    /\ Idle

target_codes == DOMAIN zanata

Applies_Always == TRUE

\* "if args.apply:" before every create, update and delete call
Applies == apply

\* delete_all_languages(dry_run=...)
dry_run == ~apply

(***************************************************************************)
(* Listing the store, page by page                                         *)
(***************************************************************************)

ListRequest == Req("GET_LIST", <<>>, <<>>, <<>>, <<>>)

\* the pages the store answers a listing with; an empty store answers one
NumPages(store) ==
    IF store = <<>> THEN 1 ELSE (Len(store) + PageSize - 1) \div PageSize

\* the records of the first k pages
FirstPages(store, k) ==
    SubSeq(store, 1, IF k * PageSize < Len(store) THEN k * PageSize ELSE Len(store))

\* a listing reads every page, or fails on the page after the first k
ListOutcomes(store) ==
    { [pages |-> NumPages(store), failed |-> FALSE] }
        \cup { [pages |-> k, failed |-> TRUE] : k \in 0..(NumPages(store) - 1) }

\* one request per page asked for
ListCalls(outcome) ==
    [n \in 1..(outcome.pages + IF outcome.failed THEN 1 ELSE 0) |-> ListRequest]

\* a listing that did not fail
list_languages(store, outcome) == FirstPages(store, outcome.pages)

\* delete_languages.py: the pages read before the failure, if any
get_all_languages(store, outcome) == FirstPages(store, outcome.pages)

(***************************************************************************)
(* sync.py main                                                            *)
(***************************************************************************)

\* lines 181-197: the inputs are loaded and the remote store is listed
SyncStart ==
    /\ tool = "sync" /\ pc = "start"
    /\ IF ~token
       THEN /\ pc' = "exit1"
            /\ UNCHANGED << listing, current, calls >>
       ELSE \E outcome \in ListOutcomes(remote) :
               /\ listing' = Append(listing, outcome)
               /\ calls' = calls \o ListCalls(outcome)
               /\ IF outcome.failed
                  THEN pc' = "aborted" /\ current' = current
                  ELSE pc' = "match" /\ current' = list_languages(remote, outcome)
    /\ idx' = 1
    /\ UNCHANGED << inputs, pure, sync_locals, report, tally, deleter_locals >>

Protected_Raw(w_code) == w_code \in exclude

\* line 258: canon(w_code) in args.exclude
Protected(w_code) == Canon(w_code) \in exclude

\* lines 205-216: [by, z_code]
MatchOf(obj) ==
    LET cw == Canon(obj.code)
    IN  IF cw \in target_codes
        THEN [by |-> "code", z_code |-> << cw >>]
        ELSE LET hit == any_alias_match(obj.aliases, target_codes)
             IN  IF Truthy(hit)
                 THEN [by |-> "alias", z_code |-> hit]
                 ELSE [by |-> "none", z_code |-> <<>>]

PickedFor_MatchedOnly(z_code, cw) == PickPlural(plural_map, z_code)

\* line 225
PickedFor(z_code, cw) ==
    LET first == PickPlural(plural_map, z_code)
    IN  IF first # <<>> THEN first ELSE PickPlural(plural_map, cw)

\* lines 204-262: one remote record of the listing
SyncMatchStep ==
    /\ tool = "sync" /\ pc = "match" /\ idx <= Len(current)
    /\ LET obj   == current[idx]
           cw    == Canon(obj.code)
           match == MatchOf(obj)
       IN  IF match.by # "none"
           THEN LET want_name == zanata[match.z_code[1]].name
                    picked    == PickedFor(match.z_code[1], cw)
                IN  \E body \in RemoteBodies :
                    LET have_name   == Strip(body.name)
                        cur         == body.plural
                        need_plural ==
                            /\ picked # <<>>
                            /\ ~(/\ cur # <<>>
                                 /\ cur[1].number = picked[1].number
                                 /\ Strip(cur[1].formula) = picked[1].formula)
                        need_name   == want_name # <<>> /\ want_name # have_name
                        line        ==
                            [code |-> obj.code, by |-> match.by,
                             z_code |-> match.z_code, have_name |-> have_name,
                             cur |-> cur, picked |-> picked,
                             need_name |-> need_name, need_plural |-> need_plural,
                             class |-> IF need_name \/ need_plural
                                       THEN "update" ELSE "skip"]
                        req         ==
                            patch_language(obj.code,
                                IF need_name THEN << want_name >> ELSE <<>>,
                                IF need_plural THEN << picked[1].number >> ELSE <<>>,
                                IF need_plural THEN << picked[1].formula >> ELSE <<>>)
                    IN  /\ keep_codes' = keep_codes \cup { obj.code }
                        /\ report' = Append(report, line)
                        /\ delete_list' = delete_list
                        /\ IF (need_name \/ need_plural) /\ Applies /\ ~PayloadEmpty(req)
                           THEN \E ans \in PatchAnswers :
                                   /\ calls' = Append(calls, req)
                                   /\ IF ans.raised
                                      THEN pc' = "aborted" /\ idx' = idx
                                      ELSE pc' = pc /\ idx' = idx + 1
                           ELSE /\ calls' = calls
                                /\ pc' = pc
                                /\ idx' = idx + 1
           ELSE LET line == [code |-> obj.code, by |-> "none", z_code |-> <<>>,
                             have_name |-> <<>>, cur |-> <<>>, picked |-> <<>>,
                             need_name |-> FALSE, need_plural |-> FALSE,
                             class |-> IF Protected(obj.code)
                                       THEN "protected" ELSE "delete"]
                IN  /\ IF Protected(obj.code)
                       THEN /\ keep_codes' = keep_codes \cup { obj.code }
                            /\ delete_list' = delete_list
                       ELSE /\ delete_list' = delete_list \cup { obj.code }
                            /\ keep_codes' = keep_codes
                    /\ report' = Append(report, line)
                    /\ calls' = calls
                    /\ pc' = pc
                    /\ idx' = idx + 1
    /\ UNCHANGED << inputs, pure, listing, current, create_list, tally, deleter_locals >>

existing_codes_only ==
    { Canon(current[k].code) : k \in 1..Len(current) }

\* lines 265-268
existing_codes_and_aliases ==
    { Canon(current[k].code) : k \in 1..Len(current) }
        \cup UNION { { Canon(current[k].aliases[a]) :
                         a \in 1..Len(current[k].aliases) } :
                     k \in 1..Len(current) }

\* the phase that follows, given the two work lists
PhaseAfterPlan(creates, deletes) ==
    IF creates # {} THEN "create" ELSE IF deletes # {} THEN "delete" ELSE "done"

\* lines 264-279: the creation candidates and the plan summary
SyncPlan ==
    /\ tool = "sync" /\ pc = "match" /\ idx > Len(current)
    /\ create_list' = { z_code \in target_codes :
                          z_code \notin existing_codes_and_aliases }
    /\ pc' = PhaseAfterPlan(create_list', delete_list)
    /\ idx' = 1
    /\ UNCHANGED << inputs, pure, listing, current, keep_codes, delete_list, report, calls,
                    tally, deleter_locals >>

\* lines 282-293: one code of sorted(create_list)
SyncCreateStep ==
    /\ tool = "sync" /\ pc = "create"
    /\ LET todo      == Sorted(create_list)
           code      == todo[idx]
           want_name == zanata[code].name
           picked    == PickPlural(plural_map, code)
           after     == IF idx < Len(todo) THEN "create"
                        ELSE PhaseAfterPlan({}, delete_list)
           line      == [code |-> code, by |-> "none", z_code |-> << code >>,
                         have_name |-> <<>>, cur |-> <<>>, picked |-> picked,
                         need_name |-> FALSE, need_plural |-> FALSE,
                         class |-> IF picked = <<>>
                                   THEN "create_skipped" ELSE "create"]
       IN  /\ report' = Append(report, line)
           /\ IF picked # <<>> /\ Applies
              THEN \E ans \in PostAnswers :
                      /\ calls' = Append(calls,
                            create_language_sync(code, want_name,
                                picked[1].number, picked[1].formula))
                      /\ IF ans.raised
                         THEN pc' = "aborted" /\ idx' = idx
                         ELSE /\ pc' = after
                              /\ idx' = IF after = "create" THEN idx + 1 ELSE 1
              ELSE /\ calls' = calls
                   /\ pc' = after
                   /\ idx' = IF after = "create" THEN idx + 1 ELSE 1
    /\ UNCHANGED << inputs, pure, listing, current, sync_locals, tally, deleter_locals >>

\* lines 296-301: one code of sorted(delete_list)
SyncDeleteStep ==
    /\ tool = "sync" /\ pc = "delete"
    /\ LET todo  == Sorted(delete_list)
           code  == todo[idx]
           after == IF idx < Len(todo) THEN "delete" ELSE "done"
       IN  IF Applies
           THEN \E ans \in DeleteAnswers :
                   /\ calls' = Append(calls, Req("DELETE", code, <<>>, <<>>, <<>>))
                   /\ IF ans.raised
                      THEN pc' = "aborted" /\ idx' = idx
                      ELSE pc' = after /\ idx' = idx + 1
           ELSE /\ calls' = calls
                /\ pc' = after
                /\ idx' = idx + 1
    /\ UNCHANGED << inputs, pure, listing, current, sync_locals, report, tally, deleter_locals >>

(***************************************************************************)
(* create_languages_weblate.py and create_languages_weblate_v2.py main     *)
(***************************************************************************)

\* lines 162-176: the inputs are loaded, the counters start at zero
CreateUpdateStart ==
    /\ tool \in { "v1", "v2" } /\ pc = "start"
    /\ pc' = IF ~token THEN "exit1" ELSE IF zorder = <<>> THEN "done" ELSE "loop"
    /\ idx' = 1
    /\ UNCHANGED << inputs, pure, listing, current, sync_locals, report, calls, tally,
                    deleter_locals >>


Bump_Nothing(field) == counts

\* created += 1, updated += 1, skipped += 1, failed += 1
Bump(field) == [counts EXCEPT ![field] = @ + 1]

NotFound_NotOk(status) == status # 200

\* get_language and "if status == 200", "elif status == 404"
Found(status) == status = 200

NotFound(status) == status = 404

\* one line of the per-code output
Line(code, class, lookup, body, need_name, need_plural, parsed) ==
    [code |-> code, class |-> class, lookup |-> lookup, body |-> body,
     need_name |-> need_name, need_plural |-> need_plural, parsed |-> parsed]

\* one iteration of the loop over zanata_map; no_diff_skip: the script has
\* the branch that skips a record without differences (v2 lines 204-207)
CreateUpdateStep(no_diff_skip) ==
    /\ pc = "loop"
    /\ LET code      == zorder[idx]
           zinfo     == zanata[code]
           name      == Strip(Or(zinfo.name, code))
           direction == IF zinfo.rtl THEN << "rtl" >> ELSE <<>>
           parsed    == ResolvePlural(plural_map, code)
           after     == IF idx < Len(zorder) THEN "loop" ELSE "done"
       IN  IF parsed = <<>>
           THEN /\ counts' = Bump("skipped")
                /\ report' = Append(report,
                      Line(code, "skip_noplural", 0, <<>>, FALSE, FALSE, parsed))
                /\ UNCHANGED << calls, failures >>
                /\ pc' = after /\ idx' = idx + 1
           ELSE LET num     == parsed[1].number
                    formula == parsed[1].formula
                    get     == Req("GET", code, <<>>, <<>>, <<>>)
                IN  \E got \in GetAnswers :
                    IF got.raised
                    THEN /\ calls' = Append(calls, get)
                         /\ pc' = "aborted" /\ idx' = idx
                         /\ UNCHANGED << counts, failures, report >>
                    ELSE IF Found(got.status)
                    THEN \E data \in RemoteBodies :
                         LET cur         == data.plural
                             cur_name    == Strip(data.name)
                             need_name   == name # <<>> /\ name # cur_name
                             need_plural ==
                                 ~(/\ cur # <<>>
                                   /\ cur[1].number = num
                                   /\ Strip(cur[1].formula) = formula)
                             req         ==
                                 patch_language(code,
                                     IF need_name THEN << name >> ELSE <<>>,
                                     IF need_plural THEN << num >> ELSE <<>>,
                                     IF need_plural THEN << formula >> ELSE <<>>)
                         IN  IF no_diff_skip /\ ~(need_name \/ need_plural)
                             THEN /\ counts' = Bump("skipped")
                                  /\ report' = Append(report,
                                        Line(code, "skip", got.status, << data >>,
                                             need_name, need_plural, parsed))
                                  /\ calls' = Append(calls, get)
                                  /\ UNCHANGED failures
                                  /\ pc' = after /\ idx' = idx + 1
                             ELSE /\ report' = Append(report,
                                        Line(code, "update", got.status, << data >>,
                                             need_name, need_plural, parsed))
                                  /\ IF Applies /\ ~PayloadEmpty(req)
                                     THEN \E ans \in PatchAnswers :
                                          /\ calls' = calls \o << get, req >>
                                          /\ IF ans.raised
                                             THEN /\ pc' = "aborted" /\ idx' = idx
                                                  /\ UNCHANGED << counts, failures >>
                                             ELSE /\ pc' = after /\ idx' = idx + 1
                                                  /\ IF ans.status \in { 200, 202 }
                                                     THEN /\ counts' = Bump("updated")
                                                          /\ UNCHANGED failures
                                                     ELSE /\ counts' = Bump("failed")
                                                          /\ failures' = Append(failures,
                                                                [code |-> code,
                                                                 status |-> ans.status,
                                                                 body |-> "response"])
                                     ELSE /\ calls' = Append(calls, get)
                                          /\ counts' = Bump("updated")
                                          /\ UNCHANGED failures
                                          /\ pc' = after /\ idx' = idx + 1
                    ELSE IF NotFound(got.status)
                    THEN /\ report' = Append(report,
                               Line(code, "create", got.status, <<>>, FALSE, FALSE, parsed))
                         /\ IF Applies
                            THEN \E ans \in PostAnswers :
                                 /\ calls' = calls \o
                                       << get, create_language(code, name, num,
                                                               formula, direction) >>
                                 /\ IF ans.raised
                                    THEN /\ pc' = "aborted" /\ idx' = idx
                                         /\ UNCHANGED << counts, failures >>
                                    ELSE /\ pc' = after /\ idx' = idx + 1
                                         /\ IF ans.status \in { 200, 201 }
                                            THEN /\ counts' = Bump("created")
                                                 /\ UNCHANGED failures
                                            ELSE /\ counts' = Bump("failed")
                                                 /\ failures' = Append(failures,
                                                       [code |-> code,
                                                        status |-> ans.status,
                                                        body |-> "response"])
                            ELSE /\ calls' = Append(calls, get)
                                 /\ counts' = Bump("created")
                                 /\ UNCHANGED failures
                                 /\ pc' = after /\ idx' = idx + 1
                    ELSE /\ report' = Append(report,
                               Line(code, "lookup_failed", got.status, <<>>,
                                    FALSE, FALSE, parsed))
                         /\ calls' = Append(calls, get)
                         /\ counts' = Bump("failed")
                         /\ failures' = Append(failures,
                               [code |-> code, status |-> got.status,
                                body |-> "lookup_failed"])
                         /\ pc' = after /\ idx' = idx + 1
    /\ UNCHANGED << inputs, pure, listing, current, sync_locals, deleter_locals >>

\* create_languages_weblate.py, lines 216-274
V1Step == tool = "v1" /\ CreateUpdateStep(FALSE)

\* create_languages_weblate_v2.py, lines 178-227
V2Step == tool = "v2" /\ CreateUpdateStep(TRUE)

(***************************************************************************)
(* delete_languages.py                                                     *)
(***************************************************************************)

\* lines 105-112: the (to_delete, to_skip) split of the listing
RECURSIVE FilterCodes(_, _, _)
FilterCodes(languages, excluded, keep_excluded) ==
    IF languages = <<>> THEN <<>>
    ELSE LET code == Head(languages).code
             rest == FilterCodes(Tail(languages), excluded, keep_excluded)
         IN  IF (code \in excluded) = keep_excluded
             THEN << code >> \o rest ELSE rest

\* delete_all_languages, lines 79-126: listing and split
DeleteAllStart ==
    /\ tool = "delete_all" /\ pc = "start"
    /\ \E outcome \in ListOutcomes(remote) :
       LET languages == get_all_languages(remote, outcome)
       IN  /\ listing' = Append(listing, outcome)
           /\ current' = languages
           /\ calls' = calls \o ListCalls(outcome)
           /\ IF languages = <<>>
              THEN /\ pc' = "done"
                   /\ UNCHANGED deleter_locals
              ELSE /\ languages_to_delete' = FilterCodes(languages, exclude, FALSE)
                   /\ languages_to_skip' = FilterCodes(languages, exclude, TRUE)
                   /\ pc' = IF languages_to_delete' = <<>> THEN "done" ELSE "deleting"
    /\ idx' = 1
    /\ UNCHANGED << inputs, pure, sync_locals, report, tally >>

\* delete_all_languages, lines 128-140: one language of languages_to_delete
DeleteAllStep ==
    /\ tool = "delete_all" /\ pc = "deleting"
    /\ LET code  == languages_to_delete[idx]
           after == IF idx < Len(languages_to_delete) THEN "deleting" ELSE "done"
       IN  /\ IF dry_run
              THEN /\ counts' = Bump("deleted")
                   /\ calls' = calls
              ELSE \E ans \in DeleteAnswers :
                   /\ calls' = Append(calls, Req("DELETE", code, <<>>, <<>>, <<>>))
                   /\ counts' = IF ~ans.raised /\ ~IsHTTPError(ans.status)
                                THEN Bump("deleted") ELSE Bump("failed")
           /\ pc' = after
           /\ idx' = idx + 1
    /\ UNCHANGED << inputs, pure, listing, current, sync_locals, report, failures, deleter_locals >>

\* main, lines 170-243: connection test, backup and preview list the store
DeleterMain ==
    /\ tool = "deleter_main" /\ pc = "start"
    /\ \E test, backup, preview \in ListOutcomes(remote) :
          /\ listing' = listing \o << test, backup, preview >>
          /\ current' = get_all_languages(remote, preview)
          /\ calls' = calls \o ListCalls(test) \o ListCalls(backup) \o ListCalls(preview)
    /\ pc' = "done"
    /\ UNCHANGED << inputs, pure, idx, sync_locals, report, tally, deleter_locals >>

Next ==
    \/ SyncStart
    \/ SyncMatchStep
    \/ SyncPlan
    \/ SyncCreateStep
    \/ SyncDeleteStep
    \/ CreateUpdateStart
    \/ V1Step
    \/ V2Step
    \/ DeleteAllStart
    \/ DeleteAllStep
    \/ DeleterMain

Spec == Init /\ [][Next]_vars

(***************************************************************************)
(* canon and parse_plural_forms on their own                               *)
(***************************************************************************)

MaxCode == 4      \* characters of a generated code string
MaxExpr == 5      \* characters of a generated plural expression

\* all sequences over S of length at most n
RECURSIVE StringsUpTo(_, _)
StringsUpTo(S, n) ==
    IF n = 0 THEN { <<>> }
    ELSE LET shorter == StringsUpTo(S, n - 1)
         IN  shorter \cup { Append(r[1], r[2]) :
                               r \in { q \in shorter \X S : Len(q[1]) = n - 1 } }

S_trTR == << "t", "r", "-", "T", "R" >>
S_Ro == << "R", "o" >>

\* the strings canon is applied to
CodeInputs ==
    StringsUpTo({ " ", "-", "_", "K", "k" }, MaxCode) \cup { S_trTR, S_Ro }

PfHead(digit) ==
    << "n", "p", "l", "u", "r", "a", "l", "s", "=", digit, ";", " ",
       "p", "l", "u", "r", "a", "l", "=" >>

\* the strings parse_plural_forms is applied to: "nplurals=<d>; plural=<e>;"
\* for generated expressions e, and strings of other shapes
RuleInputs ==
    { PfHead(d) \o e \o << ";" >> :
        d \in { "0", "2" }, e \in StringsUpTo({ "(", ")", "n", " " }, MaxExpr) }
        \cup { PF_A, PF_B, PF_BAD, <<>>, KwPlural \o << "=", "n" >>,
               KwNplurals \o << "=", "2" >>,
               KwNplurals \o << "=", "n", ";" >> \o KwPlural \o << "=", "n" >> }

InitPure ==
    /\ tool = "none" /\ apply = FALSE /\ token = FALSE /\ exclude = {}
    /\ zanata = <<>> /\ zorder = <<>> /\ plural_map = <<>> /\ remote = <<>>
    /\ Idle
    /\ out = <<>>
    /\ \/ fn = "canon" /\ arg \in CodeInputs
       \/ fn = "parse_plural_forms" /\ arg \in RuleInputs

\* canon(x)
CanonStep ==
    /\ fn = "canon" /\ out = <<>>
    /\ out' = << canon(arg) >>
    /\ UNCHANGED << inputs, fn, arg, listing, pc, current, idx, sync_locals,
                    report, calls, tally, deleter_locals >>

\* canon(canon(x))
CanonAgain ==
    /\ fn = "canon" /\ Len(out) = 1
    /\ out' = Append(out, canon(out[1]))
    /\ UNCHANGED << inputs, fn, arg, listing, pc, current, idx, sync_locals,
                    report, calls, tally, deleter_locals >>

\* parse_plural_forms(pf)
ParseStep ==
    /\ fn = "parse_plural_forms" /\ out = <<>>
    /\ out' = << parse_plural_forms(arg) >>
    /\ UNCHANGED << inputs, fn, arg, listing, pc, current, idx, sync_locals,
                    report, calls, tally, deleter_locals >>

NextPure ==
    \/ CanonStep
    \/ CanonAgain
    \/ ParseStep

SpecPure == InitPure /\ [][NextPure]_vars

(***************************************************************************)
(* Properties                                                              *)
(***************************************************************************)

\* the requests of one kind issued so far for one code
CallsFor(op, code) ==
    { j \in 1..Len(calls) : calls[j].op = op /\ calls[j].code = code }

\* sync.py prints one line per remote record, in listing order, before any
\* other line
MatchLines == 1..(IF Len(report) < Len(current) THEN Len(report) ELSE Len(current))

\* C1: Exclusion protection. A remote record whose code is in the exclude
\* set is never classified Delete and never receives a delete call,
\* matched or not: in sync.py the normalized remote code is compared with
\* the exclude set, in delete_all_languages the code as listed.
C1_ExclusionProtection ==
    /\ tool = "sync" =>
          \A k \in 1..Len(remote) :
              canon(remote[k].code) \in exclude =>
                  /\ remote[k].code \notin delete_list
                  /\ CallsFor("DELETE", remote[k].code) = {}
                  /\ k \in MatchLines => report[k].class # "delete"
    /\ tool = "delete_all" =>
          \A k \in 1..Len(remote) :
              remote[k].code \in exclude =>
                  /\ \A d \in 1..Len(languages_to_delete) :
                         languages_to_delete[d] # remote[k].code
                  /\ CallsFor("DELETE", remote[k].code) = {}

\* a finished apply run of sync.py that deleted a record and kept an
\* unmatched record whose written code differs from its excluded normal form
C1_Witness ==
    /\ tool = "sync" /\ pc = "done" /\ apply
    /\ \E k \in 1..Len(remote) :
          /\ remote[k].code \notin exclude
          /\ canon(remote[k].code) \in exclude
          /\ report[k].class = "protected"
    /\ \E j \in 1..Len(calls) : calls[j].op = "DELETE"

\* the alias positions of a remote record that normalize to a catalogue code
AliasHits(obj) ==
    { a \in 1..Len(obj.aliases) : canon(obj.aliases[a]) \in DOMAIN zanata }

FirstHit(obj) ==
    CHOOSE a \in AliasHits(obj) : \A b \in AliasHits(obj) : a <= b

\* C2: Alias precedence in sync.py. A remote record whose normalized code is
\* no catalogue code but one of whose aliases normalizes to a catalogue code
\* is matched (kept or updated), never Delete, and the catalogue entry it is
\* matched to is the one named by the first such alias of its alias list.
C2_AliasPrecedence ==
    tool = "sync" =>
        \A k \in MatchLines :
            LET obj == remote[k]
            IN  (canon(obj.code) \notin DOMAIN zanata /\ AliasHits(obj) # {}) =>
                    /\ report[k].code = obj.code
                    /\ report[k].by = "alias"
                    /\ report[k].class \in { "update", "skip" }
                    /\ report[k].z_code = << canon(obj.aliases[FirstHit(obj)]) >>
                    /\ obj.code \in keep_codes
                    /\ obj.code \notin delete_list
                    /\ CallsFor("DELETE", obj.code) = {}

\* a finished run with a record matched through the first of two aliases
\* that both name catalogue codes
C2_Witness ==
    /\ tool = "sync" /\ pc = "done"
    /\ \E k \in 1..Len(remote) :
          /\ canon(remote[k].code) \notin DOMAIN zanata
          /\ Cardinality(AliasHits(remote[k])) = 2
          /\ report[k].by = "alias"
          /\ report[k].z_code = << canon(remote[k].aliases[1]) >>
          /\ report[k].z_code # << canon(remote[k].aliases[2]) >>

\* the codes of a sync.py run: the normalized remote codes and the
\* catalogue codes
AllCodes ==
    { canon(remote[k].code) : k \in 1..Len(remote) } \cup DOMAIN zanata

\* the class a printed line puts its code in
ClassOfLine(line) ==
    CASE line.class = "update"  -> "Update"
      [] line.class = "create"  -> "Create"
      [] line.class = "delete"  -> "Delete"
      [] OTHER                  -> "Skip"

\* the classes a code ends up in: those of the lines printed for a remote
\* record with that normalized code, for a record matched to that catalogue
\* code, or for the creation of that catalogue code
ClassesOf(c) ==
    { ClassOfLine(report[k]) :
        k \in { n \in 1..Len(report) :
                  canon(report[n].code) = c \/ report[n].z_code = << c >> } }

\* C3: Partition completeness in sync.py. When the run is over, every code
\* of the remote snapshot or of the catalogue is in exactly one of the
\* classes Create, Update, Skip, Delete: in no two of them and in at least
\* one, catalogue codes matched only through an alias included.
C3_PartitionCompleteness ==
    (tool = "sync" /\ pc = "done") =>
        \A c \in AllCodes : Cardinality(ClassesOf(c)) = 1

\* the plan of sync.py is made: the create list is final
Planned == tool = "sync" /\ pc \in { "create", "delete", "done" }

\* the catalogue codes that are the normal form of a remote code or alias
OnRemote ==
    { z \in DOMAIN zanata :
        \E k \in 1..Len(remote) :
            \/ canon(remote[k].code) = z
            \/ \E a \in 1..Len(remote[k].aliases) : canon(remote[k].aliases[a]) = z }

\* C4: Creation candidates in sync.py. A catalogue code is in the create
\* list if and only if it equals no normalized remote code and no normalized
\* alias of any remote record; so no code is both created and matched, kept
\* or deleted in one run.
C4_CreationCandidates ==
    /\ Planned => create_list = DOMAIN zanata \ OnRemote
    /\ tool = "sync" =>
          /\ \A c \in create_list :
                /\ c \notin keep_codes /\ c \notin delete_list
                /\ \A k \in MatchLines :
                      canon(report[k].code) # c /\ report[k].z_code # << c >>
          /\ \A j \in 1..Len(calls) :
                calls[j].op = "POST" =>
                    /\ calls[j].code \in create_list
                    /\ \A n \in 1..Len(calls) :
                          calls[n].op \in { "PATCH", "DELETE" } =>
                              canon(calls[n].code) # calls[j].code
                    /\ \A k \in MatchLines : report[k].z_code # << calls[j].code >>

\* a finished apply run that created one catalogue code and left alone
\* another that only an alias of a remote record names
C4_Witness ==
    /\ tool = "sync" /\ pc = "done" /\ apply
    /\ \E j \in 1..Len(calls) : calls[j].op = "POST"
    /\ \E z \in DOMAIN zanata :
          /\ z \notin create_list
          /\ \A k \in 1..Len(remote) : canon(remote[k].code) # z

\* v1, v2: the printed line is for a record whose name and plural rule
\* equal the catalogue name and the resolved rule
SameAsCatalogue(line) ==
    /\ line.lookup = 200
    /\ line.body[1].name = Strip(Or(zanata[line.code].name, line.code))
    /\ line.body[1].plural = line.parsed

\* sync.py: the same for the line of a matched record
SameAsCatalogueSync(line) ==
    /\ line.by # "none"
    /\ line.have_name = zanata[line.z_code[1]].name
    /\ line.cur = IF line.picked = <<>> THEN line.cur
                  ELSE << Rule(line.picked[1].number, line.picked[1].formula) >>

\* C5: No-diff skip. In sync.py, create_languages_weblate.py and
\* create_languages_weblate_v2.py an existing record whose name equals the
\* catalogue name and whose stored (count, formula) equals the resolved rule
\* is classified Skip: not reported or counted as an update, and no update
\* is attempted for it.
C5_NoDiffSkip ==
    /\ tool \in { "v1", "v2" } =>
          /\ \A k \in 1..Len(report) :
                SameAsCatalogue(report[k]) =>
                    /\ report[k].class = "skip"
                    /\ CallsFor("PATCH", report[k].code) = {}
          /\ counts.updated <=
                 Cardinality({ k \in 1..Len(report) :
                                 /\ report[k].class = "update"
                                 /\ ~SameAsCatalogue(report[k]) })
    /\ tool = "sync" =>
          \A k \in MatchLines :
              SameAsCatalogueSync(report[k]) =>
                  /\ report[k].class = "skip"
                  /\ CallsFor("PATCH", report[k].code) = {}

\* the part of C5 that holds: sync.py and create_languages_weblate_v2.py
C5_NoDiffSkip_SyncAndV2 == tool # "v1" => C5_NoDiffSkip

\* the printed lines for the existing record a request addresses
LinesFor(code) ==
    { k \in 1..Len(report) : report[k].code = code /\ report[k].class = "update" }

\* C6: Partial update. Every PATCH request for an existing record carries
\* the name field exactly when the name differs (need_name), the plural
\* field exactly when the rule differs (need_plural), and never a direction
\* field; when neither is needed no PATCH request is sent.
C6_PartialUpdate ==
    /\ \A j \in 1..Len(calls) :
          calls[j].op = "PATCH" =>
              /\ calls[j].direction = <<>>
              /\ Cardinality(LinesFor(calls[j].code)) = 1
              /\ \A k \in LinesFor(calls[j].code) :
                    /\ (calls[j].name # <<>>) = report[k].need_name
                    /\ (calls[j].plural # <<>>) = report[k].need_plural
    /\ \A k \in 1..Len(report) :
          (~report[k].need_name /\ ~report[k].need_plural) =>
              CallsFor("PATCH", report[k].code) = {}

\* an apply run sent a PATCH with the name alone for one record and none
\* for another that needed nothing
C6_Witness ==
    /\ apply
    /\ \E j \in 1..Len(calls) :
          /\ calls[j].op = "PATCH"
          /\ calls[j].name # <<>>
          /\ calls[j].plural = <<>>
    /\ \E k \in 1..Len(report) :
          /\ report[k].class \in { "update", "skip" }
          /\ ~report[k].need_name /\ ~report[k].need_plural

\* C7: Dry-run safety. In every tool, while the apply flag is not set, no
\* POST, PATCH or DELETE request is issued during the whole run, whatever
\* the inputs and the remote state; only list and get requests occur.
C7_DryRunSafety ==
    ~apply => \A j \in 1..Len(calls) : calls[j].op \in { "GET_LIST", "GET" }

\* a finished dry run of sync.py that planned an update, a creation and a
\* deletion
C7_Witness ==
    /\ ~apply /\ tool = "sync" /\ pc = "done"
    /\ create_list # {} /\ delete_list # {}
    /\ \E k \in 1..Len(report) : report[k].class = "update"
    /\ \E k \in 1..Len(report) : report[k].class = "create"
    /\ calls # <<>>

\* finished dry runs of the other tools that planned a change
C7_WitnessOthers ==
    /\ ~apply /\ pc = "done"
    /\ \/ tool \in { "v1", "v2" } /\ counts.created + counts.updated > 0
       \/ tool = "delete_all" /\ counts.deleted > 0

\* the last request of the run so far is a create, patch or delete call
LastCallMutates ==
    /\ calls # <<>>
    /\ calls[Len(calls)].op \in { "POST", "PATCH", "DELETE" }

\* codes after the one of the last request still had an operation planned
LaterPlanned ==
    \/ /\ tool \in { "v1", "v2" }
       /\ idx < Len(zorder)
    \/ /\ tool = "sync"
       /\ calls[Len(calls)].op = "PATCH"
       /\ idx < Len(current)
    \/ /\ tool = "sync"
       /\ calls[Len(calls)].op = "POST"
       /\ idx < Cardinality(create_list) \/ delete_list # {}
    \/ /\ tool = "sync"
       /\ calls[Len(calls)].op = "DELETE"
       /\ idx < Cardinality(delete_list)

\* C8: Per-call failures do not abort the run. In apply mode, whatever the
\* outcome of a create, patch or delete call for one code (a non-2xx answer,
\* a timeout or connection failure), the run goes on and the operation
\* planned for every later code is still attempted: the run never stops
\* after such a call while later codes are left.
C8_FailuresDoNotAbort ==
    ~(pc = "aborted" /\ LastCallMutates /\ LaterPlanned)

\* base(c): the part of c before the first "_"
BaseOf(c) == SplitBase(c)

\* the resolution as the claim words it: the exact entry when present, the
\* base entry only when the exact one is absent
PresentPick(pm, c) ==
    IF c \in DOMAIN pm
    THEN Tagged(parse_plural_forms(pm[c]), c)
    ELSE IF BaseOf(c) \in DOMAIN pm
         THEN Tagged(parse_plural_forms(pm[BaseOf(c)]), BaseOf(c))
         ELSE <<>>

\* the resolution with an empty entry counted as absent
NonEmptyPick(pm, c) ==
    IF c \in DOMAIN pm /\ pm[c] # <<>>
    THEN Tagged(parse_plural_forms(pm[c]), c)
    ELSE IF BaseOf(c) \in DOMAIN pm /\ pm[BaseOf(c)] # <<>>
         THEN Tagged(parse_plural_forms(pm[BaseOf(c)]), BaseOf(c))
         ELSE <<>>

\* a rule without the key it came from
Untagged(picked) ==
    IF picked = <<>> THEN <<>>
    ELSE << Rule(picked[1].number, picked[1].formula) >>

\* the lines sync.py prints for the creation candidates
CreateLines ==
    { k \in 1..Len(report) :
        tool = "sync" /\ report[k].class \in { "create", "create_skipped" } }

\* C9 as stated: Base-language fallback. For a code c the rule string used
\* is plural_map[c] when that entry is present; only when it is absent is
\* plural_map[base(c)] used, tagged as coming from base(c); when neither is
\* present or the chosen string does not parse, c has no resolvable plural
\* (an exact entry that does not parse does not fall back to the base entry).
C9_BaseFallback_AsStated ==
    /\ \A k \in CreateLines :
          report[k].picked = PresentPick(plural_map, report[k].code)
    /\ tool \in { "v1", "v2" } =>
          \A k \in 1..Len(report) :
              report[k].parsed = Untagged(PresentPick(plural_map, report[k].code))

\* C9 amended: the same with "present" read as present and not the empty
\* string: an exact entry that is empty (or blank before loading) counts as
\* absent and the base entry is used; a non-empty exact entry that does not
\* parse still does not fall back.
C9_BaseFallback ==
    /\ \A k \in CreateLines :
          report[k].picked = NonEmptyPick(plural_map, report[k].code)
    /\ tool \in { "v1", "v2" } =>
          \A k \in 1..Len(report) :
              report[k].parsed = Untagged(NonEmptyPick(plural_map, report[k].code))

\* sync.py planned the creation of ko_KR with the rule of ko, the entry of
\* ko_KR being empty; or refused it, the entry of ko_KR not parsing while
\* ko has a rule
C9_Witness ==
    /\ S_ko \in DOMAIN plural_map
    /\ S_koKR \in DOMAIN plural_map
    /\ \E k \in CreateLines :
          /\ report[k].code = S_koKR
          /\ plural_map[S_koKR] = <<>>
          /\ report[k].picked # <<>>
          /\ report[k].picked[1].from_key = S_ko

\* an exact entry that does not parse: no rule, though the base entry has one
C9_WitnessUnparseable ==
    /\ S_ko \in DOMAIN plural_map
    /\ S_koKR \in DOMAIN plural_map
    /\ \E k \in CreateLines :
          /\ report[k].code = S_koKR
          /\ plural_map[S_koKR] = PF_BAD
          /\ report[k].picked = <<>>

\* the rule the documented priority gives a catalogue code: the plural map
\* first, then the pluralForms string of the Zanata record
ByPriority(code) ==
    LET from_map    == resolve_plural(plural_map, code)
        from_zanata == parse_plural_forms(zanata[code].pluralForms)
    IN  IF from_map # <<>> THEN from_map ELSE from_zanata

\* C10: Plural source priority in create_languages_weblate.py and
\* create_languages_weblate_v2.py. The rule of a catalogue code comes from
\* the plural map first; when the map has no usable entry for the code, the
\* pluralForms string of the Zanata record is used; the code is skipped for
\* lack of a plural only when neither source yields a rule.
C10_PluralSourcePriority ==
    tool \in { "v1", "v2" } =>
        \A k \in 1..Len(report) :
            /\ report[k].parsed = ByPriority(report[k].code)
            /\ (report[k].class = "skip_noplural") = (ByPriority(report[k].code) = <<>>)

\* the part of C10 that holds: a usable entry of the plural map is used
C10_PluralMapFirst ==
    tool \in { "v1", "v2" } =>
        \A k \in 1..Len(report) :
            resolve_plural(plural_map, report[k].code) # <<>> =>
                /\ report[k].parsed = resolve_plural(plural_map, report[k].code)
                /\ report[k].class # "skip_noplural"

\* the lines sync.py prints for the records matched through an alias
AliasLines ==
    { k \in MatchLines : tool = "sync" /\ report[k].by = "alias" }

\* the name and the rule the PATCH requests of a record carry agree with
\* the name wanted and the rule picked for it
PatchCarries(k, want_name, picked) ==
    \A j \in CallsFor("PATCH", report[k].code) :
        /\ calls[j].name \in { <<>>, << want_name >> }
        /\ calls[j].plural \in { <<>>, Untagged(picked) }

\* C11 as stated: a remote record matched through alias a takes its data
\* from catalogue entry a: the wanted name is that of a and the plural rule
\* used to decide and perform the update is the one resolved for a
\* (plural_map[a], else plural_map[base(a)]); with no rule resolvable for a
\* no plural update is made for the record.
C11_AliasData_AsStated ==
    \A k \in AliasLines :
        LET a      == report[k].z_code[1]
            picked == pick_plural(plural_map, a)
        IN  /\ report[k].picked = picked
            /\ report[k].need_name =
                  (zanata[a].name # <<>> /\ zanata[a].name # report[k].have_name)
            /\ picked = <<>> => ~report[k].need_plural
            /\ PatchCarries(k, zanata[a].name, picked)

\* C11 amended: the wanted name is that of a; the rule is the one resolved
\* for a and, when none is resolvable for a, the one resolved for the
\* record's own normalized code; only when neither resolves is no plural
\* update made.
C11_AliasData ==
    \A k \in AliasLines :
        LET a      == report[k].z_code[1]
            for_a  == pick_plural(plural_map, a)
            picked == IF for_a # <<>> THEN for_a
                      ELSE pick_plural(plural_map, canon(report[k].code))
        IN  /\ report[k].picked = picked
            /\ report[k].need_name =
                  (zanata[a].name # <<>> /\ zanata[a].name # report[k].have_name)
            /\ picked = <<>> => ~report[k].need_plural
            /\ PatchCarries(k, zanata[a].name, picked)

\* an apply run patched the plural of a record matched through an alias
\* with the rule of the record's own code, none being resolvable for the
\* alias
C11_Witness ==
    /\ apply
    /\ \E k \in AliasLines :
          /\ pick_plural(plural_map, report[k].z_code[1]) = <<>>
          /\ report[k].need_plural
          /\ \E j \in CallsFor("PATCH", report[k].code) : calls[j].plural # <<>>

\* an alias-matched record with a rule resolved for the alias itself
C11_WitnessOwnRule ==
    \E k \in AliasLines :
        /\ pick_plural(plural_map, report[k].z_code[1]) # <<>>
        /\ report[k].need_plural

\* the rule a tool resolves for a catalogue code it creates
RuleFor(code) ==
    IF tool = "sync" THEN Untagged(pick_plural(plural_map, code))
    ELSE resolve_plural(plural_map, code)

\* the direction the claim gives the create request of a code
DirectionFor(code) ==
    IF SplitBase(code) \in RtlLangs THEN << "rtl" >> ELSE <<>>

\* C12: Create payload. In sync.py, create_languages_weblate.py and
\* create_languages_weblate_v2.py the create request for a catalogue code
\* carries the catalogue name, the resolved (count, formula) rule, and
\* direction "rtl" when the base language of the code is in the known
\* right-to-left set; for every other code no direction is sent.
C12_CreatePayload ==
    \A j \in 1..Len(calls) :
        calls[j].op = "POST" =>
            /\ calls[j].code \in DOMAIN zanata
            /\ calls[j].name = << zanata[calls[j].code].name >>
            /\ calls[j].plural # <<>>
            /\ calls[j].plural = RuleFor(calls[j].code)
            /\ calls[j].direction = DirectionFor(calls[j].code)

\* the part of C12 that holds: the two create/update scripts, and name and
\* rule in sync.py
C12_CreatePayload_Holds ==
    \A j \in 1..Len(calls) :
        calls[j].op = "POST" =>
            /\ calls[j].name = << zanata[calls[j].code].name >>
            /\ calls[j].plural = RuleFor(calls[j].code)
            /\ tool # "sync" => calls[j].direction = DirectionFor(calls[j].code)
            /\ tool = "sync" => calls[j].direction = <<>>

\* C13: Missing credentials are fatal before any network activity. In
\* every tool (sync.py, the two create/update scripts, delete_languages.py)
\* a run without an auth token stops with a non-zero exit before any
\* request to the remote store is issued.
C13_MissingTokenFatal ==
    ~token => calls = <<>> /\ pc \in { "start", "exit1" }

\* the part of C13 that holds: sync.py and the two create/update scripts
C13_MissingTokenFatal_Holds ==
    (~token /\ tool # "deleter_main") => calls = <<>> /\ pc \in { "start", "exit1" }

\* the listing the run works with is that of the last listing made
LastListing == listing[Len(listing)]

\* C14: Pagination errors yield a partial listing. In sync.py
\* (list_languages) and delete_languages.py (get_all_languages), when the
\* fetch of a page fails after k pages were read, listing stops and the run
\* goes on with exactly the records of those k pages; it does not abort.
C14_PartialListing ==
    (listing # <<>> /\ LastListing.failed) =>
        /\ pc # "aborted"
        /\ current = FirstPages(remote, LastListing.pages)

\* the part of C14 that holds: delete_languages.py
C14_PartialListing_Deleter ==
    (tool \in { "delete_all", "deleter_main" } /\ listing # <<>>) =>
        /\ pc # "aborted"
        /\ current = FirstPages(remote, LastListing.pages)

\* every listing of the run read all its pages
AllListed == \A n \in 1..Len(listing) : ~listing[n].failed

\* C16: The deletion tool deletes in apply mode. When delete_languages.py
\* runs with --apply against a store that answers every call successfully,
\* a delete request is issued for every listed language whose code is not
\* in the exclude list, so that at "Actual deletion completed" only
\* excluded languages remain.
C16_DeleterDeletes ==
    (tool = "deleter_main" /\ apply /\ pc = "done" /\ AllListed) =>
        \A k \in 1..Len(remote) :
            remote[k].code \notin exclude =>
                CallsFor("DELETE", remote[k].code) # {}

\* delete_all_languages itself, called without dry_run, does delete
C16_DeleteAllDeletes ==
    (tool = "delete_all" /\ apply /\ pc = "done" /\ AllListed) =>
        \A k \in 1..Len(remote) :
            remote[k].code \notin exclude =>
                CallsFor("DELETE", remote[k].code) # {}

\* C15 as stated: Failure entries only in apply mode. In the two
\* create/update scripts a dry run never produces a per-code failure entry:
\* the failed counter is 0 and the failure list is empty, whatever the
\* store answers to the lookups.
C15_NoDryRunFailures_AsStated ==
    (tool \in { "v1", "v2" } /\ ~apply) =>
        counts.failed = 0 /\ failures = <<>>

\* the lines of the lookups that answered neither found nor not found
FailedLookups ==
    { k \in 1..Len(report) : report[k].class = "lookup_failed" }

\* C15 amended: in a dry run no create or update produces a failure entry;
\* the only failure entries are those of lookups that answered a status
\* other than 200 and 404, one per such lookup, and the failed counter
\* counts exactly those.
C15_NoDryRunFailures ==
    (tool \in { "v1", "v2" } /\ ~apply) =>
        /\ counts.failed = Len(failures)
        /\ Len(failures) = Cardinality(FailedLookups)
        /\ \A n \in 1..Len(failures) :
              /\ failures[n].body = "lookup_failed"
              /\ failures[n].status \notin { 200, 404 }
              /\ \E k \in FailedLookups :
                    /\ report[k].code = failures[n].code
                    /\ report[k].lookup = failures[n].status

\* a finished dry run with one code counted created or updated and
\* another counted failed for its lookup
C15_Witness ==
    /\ tool \in { "v1", "v2" } /\ ~apply /\ pc = "done"
    /\ counts.failed = 1 /\ failures # <<>>
    /\ counts.created + counts.updated = 1

\* the line printed for a code by the create/update scripts
LineOf(code) ==
    { k \in 1..Len(report) : report[k].code = code }

\* C19: Lookup outcome gates mutation in the create/update scripts. For
\* each catalogue code a create request is issued only if the lookup of the
\* code answered 404, an update request only if it answered 200; for any
\* other lookup status no create or update request is issued for the code
\* and the code is recorded as failed, with or without --apply.
C19_LookupGatesMutation ==
    tool \in { "v1", "v2" } =>
        /\ \A j \in 1..Len(calls) :
              /\ calls[j].op = "POST" =>
                    /\ LineOf(calls[j].code) # {}
                    /\ \A k \in LineOf(calls[j].code) : report[k].lookup = 404
              /\ calls[j].op = "PATCH" =>
                    /\ LineOf(calls[j].code) # {}
                    /\ \A k \in LineOf(calls[j].code) : report[k].lookup = 200
        /\ \A k \in 1..Len(report) :
              report[k].lookup \notin { 0, 200, 404 } =>
                  /\ report[k].class = "lookup_failed"
                  /\ CallsFor("POST", report[k].code) = {}
                  /\ CallsFor("PATCH", report[k].code) = {}
                  /\ \E n \in 1..Len(failures) :
                        /\ failures[n].code = report[k].code
                        /\ failures[n].status = report[k].lookup
        /\ counts.failed >= Cardinality(FailedLookups)

\* a finished apply run with one code created after a 404 and another
\* recorded as failed after a lookup that answered 500
C19_Witness ==
    /\ tool \in { "v1", "v2" } /\ apply /\ pc = "done"
    /\ \E j \in 1..Len(calls) : calls[j].op = "POST"
    /\ \E k \in FailedLookups : report[k].lookup = 500
    /\ counts.failed >= 1

\* C17: Normalization is idempotent. For every string x,
\* canon(canon(x)) = canon(x); the result has every "-" replaced by "_",
\* its first character lower-cased and all other characters in their
\* original case; canon("tr-TR") = "tr_TR", canon("Ro") = "ro",
\* canon("") = "".
C17_CanonIdempotent ==
    fn = "canon" =>
        /\ Len(out) = 2 => out[2] = out[1]
        /\ Len(out) >= 1 =>
              LET t == Strip(arg)
              IN  /\ Len(out[1]) = Len(t)
                  /\ \A n \in 1..Len(t) :
                        out[1][n] = IF t[n] = "-" THEN "_"
                                    ELSE IF n = 1 THEN LowerOf[t[n]]
                                    ELSE t[n]
                  /\ arg = S_trTR => out[1] = << "t", "r", "_", "T", "R" >>
                  /\ arg = S_Ro => out[1] = << "r", "o" >>
                  /\ arg = <<>> => out[1] = <<>>

\* canon applied twice to a string with blanks around, a hyphen and an
\* upper-case first letter
C17_Witness ==
    /\ fn = "canon" /\ Len(out) = 2
    /\ arg = << " ", "K", "-", " " >>
    /\ out[1] = << "k", "_" >>

\* parse_plural_forms returned a rule
Returned == fn = "parse_plural_forms" /\ Len(out) = 1 /\ out[1] # <<>>

\* C18: Plural rule well-formedness. Whenever parse_plural_forms returns a
\* rule, the rule has a count that is a positive integer (>= 1) and a
\* non-empty formula with as many "(" as ")"; otherwise it returns the
\* unparseable signal, never a partly filled rule.
C18_RuleWellFormed ==
    Returned =>
        /\ out[1][1].number \in Nat
        /\ out[1][1].number >= 1
        /\ out[1][1].formula # <<>>
        /\ Count(out[1][1].formula, "(") = Count(out[1][1].formula, ")")

\* the part of C18 that holds: all but the count being positive
C18_RuleWellFormed_Holds ==
    Returned =>
        /\ out[1][1].number \in Nat
        /\ out[1][1].formula # <<>>
        /\ Count(out[1][1].formula, "(") = Count(out[1][1].formula, ")")

\* properly nested: as many "(" as ")", and no prefix with more ")" than "("
Nested(s) ==
    /\ Count(s, "(") = Count(s, ")")
    /\ \A n \in 1..Len(s) :
          Count(SubSeq(s, 1, n), ")") <= Count(SubSeq(s, 1, n), "(")

\* C20: Parenthesis stripping removes only a fully wrapping layer. Whenever
\* parse_plural_forms drops the first and last character of the extracted
\* expression, they are a matching pair, so that for every extracted
\* expression with properly nested parentheses the returned formula is
\* properly nested too; an expression of the shape "(a) ? 0 : (b)" is
\* returned unchanged.
C20_StripsOnlyWrappingLayer ==
    (Returned /\ Nested(ExtractedExpr(arg))) => Nested(out[1][1].formula)

\* the part of C20 that holds: a returned formula has as many "(" as ")",
\* and an expression that is one wrapped layer loses exactly that layer
C20_StripsLayer_Holds ==
    (Returned /\ Nested(ExtractedExpr(arg))) =>
        /\ Count(out[1][1].formula, "(") = Count(out[1][1].formula, ")")
        /\ out[1][1].formula \in
              { ExtractedExpr(arg),
                Strip(SubSeq(ExtractedExpr(arg), 2, Len(ExtractedExpr(arg)) - 1)) }

\* created + updated + skipped + failed
CounterSum == counts.created + counts.updated + counts.skipped + counts.failed

\* the codes of the catalogue the loop has gone through
Processed == idx - 1

\* C21: Counter conservation in the create/update scripts. After any prefix
\* of the catalogue, created + updated + skipped + failed is the number of
\* codes processed so far (each code adds one to exactly one counter) and
\* the failure list has exactly "failed" entries; at the end of the run the
\* sum is the size of the catalogue, with and without --apply.
C21_CounterConservation ==
    tool \in { "v1", "v2" } =>
        /\ CounterSum = Processed
        /\ Len(report) \in { Processed, Processed + 1 }
        /\ Len(failures) = counts.failed
        /\ \A field \in DOMAIN counts : counts[field] \in Nat
        /\ pc = "done" => CounterSum = Len(zorder)

\* the end of an apply run over two codes: one created or updated, one
\* failed on its create or update request
C21_Witness ==
    /\ tool \in { "v1", "v2" } /\ apply /\ pc = "done"
    /\ Len(zorder) = 2
    /\ counts.created + counts.updated = 1
    /\ counts.failed = 1
    /\ failures[1].body = "response"

\* the end of a dry run over two codes: one skipped, one counted
C21_WitnessDryRun ==
    /\ tool \in { "v1", "v2" } /\ ~apply /\ pc = "done"
    /\ Len(zorder) = 2
    /\ counts.skipped = 1
    /\ counts.created + counts.updated + counts.failed = 1

=============================================================================
